---- MODULE Spec2Model ----
(***************************************************************************)
(* Billing engine (segyhp/billing-engine): loans with a flat weekly        *)
(* installment schedule, outstanding balance, delinquency detection and    *)
(* payment application.                                                    *)
(*                                                                         *)
(* Persistence is the three tables of scripts/init.sql, reached through    *)
(* the repositories of internal/repository.  The service operations        *)
(* (CreateLoan, GetOutstanding, IsDelinquent, MakePayment) are driven      *)
(* through those repositories.                                             *)
(*                                                                         *)
(* Units.  Money is counted in cents (DECIMAL(15,2)), interest rates in    *)
(* 1/RateScale (DECIMAL(5,4)), so principal + principal*rate is exact in   *)
(* units of 1/RateScale cent.  Timestamps are ticks, TicksPerDay ticks to  *)
(* a day; a timestamp that is a multiple of TicksPerDay is a midnight.     *)
(***************************************************************************)
EXTENDS Integers, Sequences, FiniteSets, TLC

VARIABLES
    loans,      \* table loans: set of rows, loan_id unique
    schedule,   \* table loan_schedule: set of rows, (loan_id, week_number) unique
    payments,   \* table payments: set of rows, nothing unique but the id
    now,        \* the wall clock, in days
    procs,      \* in-flight MakePayment requests (one per request-serving thread)
    result      \* what the last operation returned to its caller

vars == <<loans, schedule, payments, now, procs, result>>

----------------------------------------------------------------------------
(* Bounds of the model *)

MaxWeeks == 3
MaxDay == 22
MaxCreateDay == 1
TicksPerDay == 2
MaxFaultPayments == 4

(* Program constants *)

RateScale == 10000
DaysPerWeek == 7
DelinquentThreshold == 2
DefaultAnnualRate == 1000
DefaultDurationWeeks == 50

\* LOAN_AMOUNT of the configuration the model runs under: 500.00, the shipped
\* default of 5,000,000 scaled down so that amount * rate stays within the
\* integers of the checker (the weekly payment of the default loan is 11.00
\* instead of 110,000)
DefaultLoanAmount == 50000

LoanIDs == {"L1"}
Principals == {1000}
Rates == {0, 300}
Durations == 1..MaxWeeks
Procs == {"p1", "p2"}

----------------------------------------------------------------------------
(* domain constants *)

LoanStatusActive == "active"
LoanStatusClosed == "closed"
LoanStatusDefault == "default"

ScheduleStatusPending == "pending"
ScheduleStatusPaid == "paid"
ScheduleStatusOverdue == "overdue"

(* error kinds *)

NoError == "none"
ErrNoRows == "sql.ErrNoRows"
AlreadyExists == "LOAN_ALREADY_EXISTS"
AlreadyClosed == "LOAN_ALREADY_CLOSED"
InvalidPaymentAmount == "INVALID_PAYMENT_AMOUNT"
PaymentAmountMismatch == "PAYMENT_AMOUNT_MISMATCH"
NoOutstandingBalance == "NO_OUTSTANDING_BALANCE"
PersistenceError == "DATABASE_ERROR"

\* The spec's kind InvalidAmount covers both amount errors of pkg/errors.
InvalidAmount == {InvalidPaymentAmount, PaymentAmountMismatch}

----------------------------------------------------------------------------
(* time *)

\* time.Now(): some instant of the current day.
Now(tod) == now * TicksPerDay + tod

\* t.Truncate(24 * time.Hour)
Truncate(t) == t - (t % TicksPerDay)

\* t.AddDate(0, 0, days)
AddDate(t, days) == t + days * TicksPerDay

\* t.After(u)
After(t, u) == t > u

----------------------------------------------------------------------------
(* pkg/utils *)

CalculateDueDate_NoWeekOne(loanStartDate, weekNumber) ==
    AddDate(loanStartDate, (weekNumber - 1) * DaysPerWeek)

\* days := weekNumber * 7; loanStartDate.AddDate(0, 0, days)
CalculateDueDate(loanStartDate, weekNumber) ==
    AddDate(loanStartDate, weekNumber * DaysPerWeek)

CalculateWeeklyPayment_Truncating(principal, annualRate, weeks) ==
    (principal * RateScale + principal * annualRate) \div (RateScale * weeks)

\* totalAmount = principal + principal*annualRate, exact, in 1/RateScale cent;
\* Div keeps 16 decimals, far below the distance of any quotient of these
\* magnitudes from a half cent, so Round(2) (half away from zero, amounts are
\* positive) is the half-up rounding of the exact quotient to whole cents.
CalculateWeeklyPayment(principal, annualRate, weeks) ==
    LET totalAmount == principal * RateScale + principal * annualRate
        den == RateScale * weeks
    IN  (2 * totalAmount + den) \div (2 * den)

----------------------------------------------------------------------------
(* internal/repository: loans *)

LoanFound_Never(ls, loanID) == FALSE

\* SELECT ... FROM loans WHERE loan_id = $1; sql.ErrNoRows when no row matches
LoanFound(ls, loanID) == \E r \in ls : r.loanID = loanID

GetByLoanID(ls, loanID) == CHOOSE r \in ls : r.loanID = loanID

\* INSERT INTO loans; loan_id is UNIQUE
LoanCreate(ls, loan) == ls \cup {loan}

LoanUpdate_StatusNotWritten(ls, loan) ==
    { IF r.loanID = loan.loanID
        THEN [r EXCEPT !.amount = loan.amount,
                       !.interestRate = loan.interestRate,
                       !.durationWeeks = loan.durationWeeks,
                       !.weeklyPayment = loan.weeklyPayment]
        ELSE r : r \in ls }

\* UPDATE loans SET amount, interest_rate, duration_weeks, weekly_payment,
\* status WHERE loan_id = $1 (created_at is not written)
LoanUpdate(ls, loan) ==
    { IF r.loanID = loan.loanID
        THEN [r EXCEPT !.amount = loan.amount,
                       !.interestRate = loan.interestRate,
                       !.durationWeeks = loan.durationWeeks,
                       !.weeklyPayment = loan.weeklyPayment,
                       !.status = loan.status]
        ELSE r : r \in ls }

----------------------------------------------------------------------------
(* internal/repository: loan_schedule *)

\* INSERT of the whole batch in one transaction
CreateSchedule(sch, rows) == sch \cup rows

RECURSIVE SortByWeek(_)
SortByWeek(rows) ==
    IF rows = {} THEN <<>>
    ELSE LET first == CHOOSE r \in rows :
                        \A o \in rows : r.weekNumber <= o.weekNumber
         IN  <<first>> \o SortByWeek(rows \ {first})

RECURSIVE SortByWeekDesc(_)
SortByWeekDesc(rows) ==
    IF rows = {} THEN <<>>
    ELSE LET first == CHOOSE r \in rows :
                        \A o \in rows : r.weekNumber >= o.weekNumber
         IN  <<first>> \o SortByWeekDesc(rows \ {first})

GetScheduleByLoanID_Desc(sch, loanID) ==
    SortByWeekDesc({ r \in sch : r.loanID = loanID })

\* SELECT ... FROM loan_schedule WHERE loan_id = $1 ORDER BY week_number
GetScheduleByLoanID(sch, loanID) ==
    SortByWeek({ r \in sch : r.loanID = loanID })

UpdateScheduleStatus_AnyLoan(sch, loanID, weekNumber, status) ==
    { IF r.weekNumber = weekNumber
        THEN [r EXCEPT !.status = status]
        ELSE r : r \in sch }

UpdateScheduleStatus_WholeLoan(sch, loanID, weekNumber, status) ==
    { IF r.loanID = loanID
        THEN [r EXCEPT !.status = status]
        ELSE r : r \in sch }

\* UPDATE loan_schedule SET status = $3 WHERE loan_id = $1 AND week_number = $2
UpdateScheduleStatus(sch, loanID, weekNumber, status) ==
    { IF r.loanID = loanID /\ r.weekNumber = weekNumber
        THEN [r EXCEPT !.status = status]
        ELSE r : r \in sch }

----------------------------------------------------------------------------
(* internal/repository: payments *)

\* Rows of one loan, in insertion order, are told apart by seq: it stands for
\* the fresh id and the payment_date / created_at the service stamps on a row.
NextSeq(ps, loanID) == Cardinality({ p \in ps : p.loanID = loanID }) + 1

PaymentCreate_Dropped(ps, payment) == ps

\* INSERT INTO payments: a fresh row whatever the rows already there
PaymentCreate(ps, payment) ==
    ps \cup { [loanID |-> payment.loanID, amount |-> payment.amount,
               weekNumber |-> payment.weekNumber,
               seq |-> NextSeq(ps, payment.loanID)] }

RECURSIVE SortBySeqDesc(_)
SortBySeqDesc(rows) ==
    IF rows = {} THEN <<>>
    ELSE LET first == CHOOSE r \in rows : \A o \in rows : r.seq >= o.seq
         IN  <<first>> \o SortBySeqDesc(rows \ {first})

PaymentsGetByLoanID_LatestOnly(ps, loanID) ==
    LET all == SortBySeqDesc({ p \in ps : p.loanID = loanID })
    IN  IF all = <<>> THEN <<>> ELSE <<all[1]>>

\* SELECT ... FROM payments WHERE loan_id = $1 ORDER BY payment_date DESC
PaymentsGetByLoanID(ps, loanID) ==
    SortBySeqDesc({ p \in ps : p.loanID = loanID })

----------------------------------------------------------------------------
(* internal/service: helpers *)

Nil == [nil |-> TRUE]

RECURSIVE SumAmounts(_)
SumAmounts(ps) ==
    IF ps = <<>> THEN 0 ELSE Head(ps).amount + SumAmounts(Tail(ps))

\* index of the first installment of the list (week order) that is pending, 0 if none
RECURSIVE FirstPendingFrom(_, _)
FirstPendingFrom(schedules, i) ==
    IF i > Len(schedules) THEN 0
    ELSE IF schedules[i].status = ScheduleStatusPending THEN i
    ELSE FirstPendingFrom(schedules, i + 1)

FirstPending(schedules) == FirstPendingFrom(schedules, 1)

\* the re-scan after a payment: no installment but the one just paid is pending
AllOthersPaid(schedules, weekNumber) ==
    \A i \in 1..Len(schedules) :
        schedules[i].weekNumber # weekNumber
            => schedules[i].status # ScheduleStatusPending

\* sort.Slice by due date (week number breaks ties between equal due dates)
RECURSIVE SortByDueDate(_)
SortByDueDate(rows) ==
    IF rows = {} THEN <<>>
    ELSE LET first == CHOOSE r \in rows :
                        \A o \in rows :
                            \/ r.dueDate < o.dueDate
                            \/ r.dueDate = o.dueDate /\ r.weekNumber <= o.weekNumber
         IN  <<first>> \o SortByDueDate(rows \ {first})

\* the walk over the installments in due-date order
RECURSIVE WalkMissed(_, _, _, _)
WalkMissed(sorted, i, today, consecutiveMissed) ==
    IF i > Len(sorted) THEN FALSE
    ELSE IF After(sorted[i].dueDate, today) THEN FALSE
    ELSE IF sorted[i].status = ScheduleStatusPending
        THEN IF consecutiveMissed + 1 >= DelinquentThreshold
                THEN TRUE
                ELSE WalkMissed(sorted, i + 1, today, consecutiveMissed + 1)
    ELSE IF sorted[i].status = ScheduleStatusPaid
        THEN WalkMissed(sorted, i + 1, today, 0)
    ELSE WalkMissed(sorted, i + 1, today, consecutiveMissed)

----------------------------------------------------------------------------
(* internal/service: the four operations.  `fail` names the repository call
   that returns an error in this execution ("none": every call succeeds). *)

NoFail == "none"

NewLoan(req, weeklyPayment, createdAt) ==
    [loanID |-> req.loanID, amount |-> req.amount,
     interestRate |-> req.interestRate, durationWeeks |-> req.durationWeeks,
     weeklyPayment |-> weeklyPayment, status |-> LoanStatusActive,
     createdAt |-> createdAt]

NewSchedule(loan) ==
    { [loanID |-> loan.loanID, weekNumber |-> w,
       dueAmount |-> loan.weeklyPayment,
       dueDate |-> CalculateDueDate(loan.createdAt, w),
       status |-> ScheduleStatusPending] : w \in 1..loan.durationWeeks }

CreateLoan(ls, sch, req, nowTs, fail) ==
    LET unchanged == [loans |-> ls, schedule |-> sch, loan |-> Nil, rows |-> {}]
        loan == NewLoan(req,
                        CalculateWeeklyPayment(req.amount, req.interestRate,
                                               req.durationWeeks),
                        Truncate(nowTs))
        rows == NewSchedule(loan)
    IN  IF fail = "GetByLoanID"
            THEN unchanged @@ [err |-> PersistenceError]
        ELSE IF LoanFound(ls, req.loanID)
            THEN unchanged @@ [err |-> AlreadyExists]
        ELSE IF fail = "Create"
            THEN unchanged @@ [err |-> PersistenceError]
        ELSE IF fail = "CreateSchedule"
            THEN [unchanged EXCEPT !.loans = LoanCreate(ls, loan)]
                    @@ [err |-> PersistenceError]
        ELSE [loans |-> LoanCreate(ls, loan),
              schedule |-> CreateSchedule(sch, rows),
              loan |-> loan, rows |-> rows, err |-> NoError]

\* outstanding balance in 1/RateScale cent
GetOutstanding(ls, ps, loanID, fail) ==
    IF fail = "GetByLoanID" \/ ~LoanFound(ls, loanID)
        THEN [err |-> PersistenceError, value |-> 0]
    ELSE IF fail = "PaymentsGetByLoanID"
        THEN [err |-> PersistenceError, value |-> 0]
    ELSE LET loan == GetByLoanID(ls, loanID)
             totalOwed == loan.amount * RateScale + loan.amount * loan.interestRate
             totalPaid == SumAmounts(PaymentsGetByLoanID(ps, loanID)) * RateScale
         IN  [err |-> NoError, value |-> totalOwed - totalPaid]

IsDelinquent_ScheduleFirst(ls, sch, loanID, nowTs, fail) ==
    IF fail = "GetByLoanID" \/ ~LoanFound(ls, loanID)
        THEN [err |-> PersistenceError, value |-> FALSE]
    ELSE IF fail = "GetScheduleByLoanID"
        THEN [err |-> PersistenceError, value |-> FALSE]
    ELSE IF GetByLoanID(ls, loanID).status # LoanStatusActive
        THEN [err |-> AlreadyClosed, value |-> FALSE]
    ELSE LET schedules == GetScheduleByLoanID(sch, loanID)
             sorted == SortByDueDate({ schedules[i] : i \in 1..Len(schedules) })
         IN  [err |-> NoError,
              value |-> WalkMissed(sorted, 1, Truncate(nowTs), 0)]

IsDelinquent(ls, sch, loanID, nowTs, fail) ==
    IF fail = "GetByLoanID" \/ ~LoanFound(ls, loanID)
        THEN [err |-> PersistenceError, value |-> FALSE]
    ELSE IF GetByLoanID(ls, loanID).status # LoanStatusActive
        THEN [err |-> AlreadyClosed, value |-> FALSE]
    ELSE IF fail = "GetScheduleByLoanID"
        THEN [err |-> PersistenceError, value |-> FALSE]
    ELSE LET schedules == GetScheduleByLoanID(sch, loanID)
             sorted == SortByDueDate({ schedules[i] : i \in 1..Len(schedules) })
         IN  [err |-> NoError,
              value |-> WalkMissed(sorted, 1, Truncate(nowTs), 0)]

AmountMatches_AtLeast(amount, weeklyPayment) == amount >= weeklyPayment

\* the payment must equal the installment (decimal Equal), no over- or underpayment
AmountMatches(amount, weeklyPayment) == amount = weeklyPayment

MakePayment_InsertBeforeAmountCheck(ls, sch, ps, req, fail) ==
    LET unchanged == [loans |-> ls, schedule |-> sch, payments |-> ps,
                      payment |-> Nil]
    IN  IF req.amount <= 0
            THEN unchanged @@ [err |-> InvalidPaymentAmount]
        ELSE IF fail = "GetByLoanID" \/ ~LoanFound(ls, req.loanID)
            THEN unchanged @@ [err |-> PersistenceError]
        ELSE IF GetByLoanID(ls, req.loanID).status # LoanStatusActive
            THEN unchanged @@ [err |-> AlreadyClosed]
        ELSE IF fail = "GetScheduleByLoanID"
            THEN unchanged @@ [err |-> PersistenceError]
        ELSE
        LET loan == GetByLoanID(ls, req.loanID)
            schedules == GetScheduleByLoanID(sch, req.loanID)
            next == FirstPending(schedules)
        IN  IF next = 0
                THEN unchanged @@ [err |-> NoOutstandingBalance]
            ELSE IF fail = "PaymentCreate"
                THEN unchanged @@ [err |-> PersistenceError]
            ELSE
            LET week == schedules[next].weekNumber
                payment == [loanID |-> req.loanID, amount |-> req.amount,
                            weekNumber |-> week]
                ps1 == PaymentCreate(ps, payment)
                sch1 == UpdateScheduleStatus(sch, req.loanID, week,
                                             ScheduleStatusPaid)
                closed == [loan EXCEPT !.status = LoanStatusClosed]
            IN  IF ~AmountMatches(req.amount, loan.weeklyPayment)
                    THEN [unchanged EXCEPT !.payments = ps1]
                            @@ [err |-> PaymentAmountMismatch]
                ELSE IF fail = "UpdateScheduleStatus"
                    THEN [unchanged EXCEPT !.payments = ps1]
                            @@ [err |-> PersistenceError]
                ELSE IF ~AllOthersPaid(schedules, week)
                    THEN [loans |-> ls, schedule |-> sch1, payments |-> ps1,
                          payment |-> payment, err |-> NoError]
                ELSE IF fail = "Update"
                    THEN [loans |-> ls, schedule |-> sch1, payments |-> ps1,
                          payment |-> Nil, err |-> PersistenceError]
                ELSE [loans |-> LoanUpdate(ls, closed), schedule |-> sch1,
                      payments |-> ps1, payment |-> payment, err |-> NoError]

MakePayment(ls, sch, ps, req, fail) ==
    LET unchanged == [loans |-> ls, schedule |-> sch, payments |-> ps,
                      payment |-> Nil]
    IN  IF req.amount <= 0
            THEN unchanged @@ [err |-> InvalidPaymentAmount]
        ELSE IF fail = "GetByLoanID" \/ ~LoanFound(ls, req.loanID)
            THEN unchanged @@ [err |-> PersistenceError]
        ELSE IF GetByLoanID(ls, req.loanID).status # LoanStatusActive
            THEN unchanged @@ [err |-> AlreadyClosed]
        ELSE IF fail = "GetScheduleByLoanID"
            THEN unchanged @@ [err |-> PersistenceError]
        ELSE
        LET loan == GetByLoanID(ls, req.loanID)
            schedules == GetScheduleByLoanID(sch, req.loanID)
            next == FirstPending(schedules)
        IN  IF next = 0
                THEN unchanged @@ [err |-> NoOutstandingBalance]
            ELSE IF ~AmountMatches(req.amount, loan.weeklyPayment)
                THEN unchanged @@ [err |-> PaymentAmountMismatch]
            ELSE IF fail = "PaymentCreate"
                THEN unchanged @@ [err |-> PersistenceError]
            ELSE
            LET week == schedules[next].weekNumber
                payment == [loanID |-> req.loanID, amount |-> req.amount,
                            weekNumber |-> week]
                ps1 == PaymentCreate(ps, payment)
                sch1 == UpdateScheduleStatus(sch, req.loanID, week,
                                             ScheduleStatusPaid)
                closed == [loan EXCEPT !.status = LoanStatusClosed]
            IN  IF fail = "UpdateScheduleStatus"
                    THEN [unchanged EXCEPT !.payments = ps1]
                            @@ [err |-> PersistenceError]
                ELSE IF ~AllOthersPaid(schedules, week)
                    THEN [loans |-> ls, schedule |-> sch1, payments |-> ps1,
                          payment |-> payment, err |-> NoError]
                ELSE IF fail = "Update"
                    THEN [loans |-> ls, schedule |-> sch1, payments |-> ps1,
                          payment |-> Nil, err |-> PersistenceError]
                ELSE [loans |-> LoanUpdate(ls, closed), schedule |-> sch1,
                      payments |-> ps1, payment |-> payment, err |-> NoError]

----------------------------------------------------------------------------
(* State *)

Idle == [pc |-> "idle", loanID |-> "", amount |-> 0, week |-> 0,
         closes |-> FALSE]

Result(op, loanID, amount, err, week, value) ==
    [op |-> op, loanID |-> loanID, amount |-> amount, err |-> err,
     week |-> week, value |-> value]

Init ==
    /\ loans = {}
    /\ schedule = {}
    /\ payments = {}
    /\ now = 0
    /\ procs = [p \in Procs |-> Idle]
    /\ result = Result("init", "", 0, NoError, 0, 0)

\* handler CreateLoan: a field of the decoded request that is zero is replaced
\* by the configured default before validation
ApplyDefaults(req) ==
    [req EXCEPT
        !.amount = IF @ = 0 THEN DefaultLoanAmount ELSE @,
        !.durationWeeks = IF @ = 0 THEN DefaultDurationWeeks ELSE @,
        !.interestRate = IF @ = 0 THEN DefaultAnnualRate ELSE @]

Requests ==
    [loanID : LoanIDs, amount : Principals, interestRate : Rates,
     durationWeeks : Durations]

\* payment amounts tried: not positive, every weekly payment a loan of the
\* model can have, and one above them all
Amounts ==
    {-1, 0, 2000} \cup
    { CalculateWeeklyPayment(ApplyDefaults(r).amount,
                             ApplyDefaults(r).interestRate,
                             ApplyDefaults(r).durationWeeks) : r \in Requests }

----------------------------------------------------------------------------
(* Operations, one request at a time, every repository call succeeding *)

DoCreateLoan(req, fail) ==
    /\ now <= MaxCreateDay
    /\ \E r \in { CreateLoan(loans, schedule, ApplyDefaults(req), Now(tod),
                              fail) : tod \in 0..(TicksPerDay - 1) } :
        /\ loans' = r.loans
        /\ schedule' = r.schedule
        /\ result' = Result("createLoan", req.loanID, req.amount, r.err,
                            0, Cardinality(r.rows))
                        @@ [fail |-> fail, loan |-> r.loan]
    /\ UNCHANGED <<payments, now, procs>>

\* HTTP status codes of pkg/response
StatusOK == 200
StatusCreated == 201
StatusBadRequest == 400
StatusInternalServerError == 500

\* What the MakePayment handler answers once the service has returned r and
\* the tables are ls, sch, ps: the request validation (amount gt=0) fails with
\* 400; a service error is a 500; then the outstanding balance and the
\* delinquency flag are fetched, and an error of either is a 500 as well.
MakePaymentResponse(r, ls, sch, ps, loanID, amount, nowTs) ==
    LET outstanding == GetOutstanding(ls, ps, loanID, NoFail)
        isDelinquent == IsDelinquent(ls, sch, loanID, nowTs, NoFail)
        failed(code) == [http |-> code, payment |-> Nil, outstanding |-> 0,
                         isDelinquent |-> FALSE]
    IN  IF amount <= 0 THEN failed(StatusBadRequest)
        ELSE IF r.err # NoError THEN failed(StatusInternalServerError)
        ELSE IF outstanding.err # NoError
            THEN failed(StatusInternalServerError)
        ELSE IF isDelinquent.err # NoError
            THEN failed(StatusInternalServerError)
        ELSE [http |-> StatusOK, payment |-> r.payment,
              outstanding |-> outstanding.value,
              isDelinquent |-> isDelinquent.value]

DoMakePayment(loanID, amount, fail) ==
    LET r == MakePayment(loans, schedule, payments,
                         [loanID |-> loanID, amount |-> amount], fail)
    IN  /\ loans' = r.loans
        /\ schedule' = r.schedule
        /\ payments' = r.payments
        /\ \E response \in { MakePaymentResponse(r, r.loans, r.schedule,
                                                  r.payments, loanID, amount,
                                                  Now(tod)) :
                                tod \in 0..(TicksPerDay - 1) } :
            result' = Result("makePayment", loanID, amount, r.err,
                             IF r.payment = Nil THEN 0
                                                ELSE r.payment.weekNumber,
                             0)
                        @@ [fail |-> fail] @@ response
        /\ UNCHANGED <<now, procs>>

DoGetOutstanding(loanID, fail) ==
    LET r == GetOutstanding(loans, payments, loanID, fail)
    IN  /\ result' = Result("getOutstanding", loanID, 0, r.err, 0, r.value)
                        @@ [fail |-> fail]
        /\ UNCHANGED <<loans, schedule, payments, now, procs>>

DoIsDelinquent(loanID, fail) ==
    /\ \E r \in { IsDelinquent(loans, schedule, loanID, Now(tod), fail) :
                    tod \in 0..(TicksPerDay - 1) } :
        result' = Result("isDelinquent", loanID, 0, r.err, 0, r.value)
                    @@ [fail |-> fail]
    /\ UNCHANGED <<loans, schedule, payments, now, procs>>

UpdateOverduePayments_MarksDefault ==
    /\ loans' = { IF \E r \in schedule :
                        /\ r.loanID = l.loanID
                        /\ r.status = ScheduleStatusPending
                        /\ r.dueDate < Now(0)
                    THEN [l EXCEPT !.status = LoanStatusDefault]
                    ELSE l : l \in loans }
    /\ result' = Result("updateOverduePayments", "", 0, NoError, 0, 0)
    /\ UNCHANGED <<schedule, payments, now, procs>>

\* cmd/scheduler: the daily job is a stub that only logs
UpdateOverduePayments ==
    /\ result' = Result("updateOverduePayments", "", 0, NoError, 0, 0)
    /\ UNCHANGED <<loans, schedule, payments, now, procs>>

AdvanceClock ==
    /\ now < MaxDay
    /\ now' = now + 1
    /\ result' = Result("tick", "", 0, NoError, 0, 0)
    /\ UNCHANGED <<loans, schedule, payments, procs>>

CreateLoanOp == \E req \in Requests : DoCreateLoan(req, NoFail)

MakePaymentOp ==
    \E loanID \in LoanIDs, amount \in Amounts :
        DoMakePayment(loanID, amount, NoFail)

GetOutstandingOp == \E loanID \in LoanIDs : DoGetOutstanding(loanID, NoFail)

IsDelinquentOp == \E loanID \in LoanIDs : DoIsDelinquent(loanID, NoFail)

Next ==
    \/ CreateLoanOp
    \/ MakePaymentOp
    \/ GetOutstandingOp
    \/ IsDelinquentOp
    \/ UpdateOverduePayments
    \/ AdvanceClock

Spec == Init /\ [][Next]_vars

----------------------------------------------------------------------------
(* The same operations when a repository call may return an error: each
   request runs with at most one failing call, named by `fail`.  A payment
   whose installment update fails leaves a payment row behind without
   progress on the schedule; MaxFaultPayments bounds the rows such failures
   may pile up.  The clock stands still. *)

CreateLoanFails == {NoFail, "GetByLoanID", "Create", "CreateSchedule"}

MakePaymentFails ==
    {NoFail, "GetByLoanID", "GetScheduleByLoanID", "PaymentCreate",
     "UpdateScheduleStatus", "Update"}

GetOutstandingFails == {NoFail, "GetByLoanID", "PaymentsGetByLoanID"}

IsDelinquentFails == {NoFail, "GetByLoanID", "GetScheduleByLoanID"}

FaultCreateLoanOp ==
    \E req \in Requests, fail \in CreateLoanFails : DoCreateLoan(req, fail)

FaultMakePaymentOp ==
    \E loanID \in LoanIDs, amount \in Amounts, fail \in MakePaymentFails :
        /\ fail = "UpdateScheduleStatus"
            => Cardinality(payments) < MaxFaultPayments
        /\ DoMakePayment(loanID, amount, fail)

FaultGetOutstandingOp ==
    \E loanID \in LoanIDs, fail \in GetOutstandingFails :
        DoGetOutstanding(loanID, fail)

FaultIsDelinquentOp ==
    \E loanID \in LoanIDs, fail \in IsDelinquentFails :
        DoIsDelinquent(loanID, fail)

FaultNext ==
    \/ FaultCreateLoanOp
    \/ FaultMakePaymentOp
    \/ FaultGetOutstandingOp
    \/ FaultIsDelinquentOp

FaultSpec == Init /\ [][FaultNext]_vars

----------------------------------------------------------------------------
(* IsDelinquent as a function of the stored schedule: the tables start with
   one active loan whose installments carry any mix of pending and paid, as
   the fixtures of the service tests and the e2e test set them up, with the
   loan's start instant at any time of day. *)

DelinqRows(loan, st) ==
    { [r EXCEPT !.status = st[r.weekNumber]] : r \in NewSchedule(loan) }

DelinqPayments(rows) ==
    { [loanID |-> r.loanID, amount |-> r.dueAmount,
       weekNumber |-> r.weekNumber,
       seq |-> Cardinality({ q \in rows : /\ q.status = ScheduleStatusPaid
                                           /\ q.weekNumber <= r.weekNumber })] :
        r \in { q \in rows : q.status = ScheduleStatusPaid } }

DelinqInit ==
    \E n \in Durations, tod \in 0..(TicksPerDay - 1) :
      \E st \in [1..n -> {ScheduleStatusPending, ScheduleStatusPaid}] :
        LET req == [loanID |-> "L1", amount |-> 1000,
                    interestRate |-> DefaultAnnualRate, durationWeeks |-> n]
            loan == NewLoan(req,
                            CalculateWeeklyPayment(req.amount, req.interestRate,
                                                   req.durationWeeks),
                            tod)
        IN  /\ loans = {loan}
            /\ schedule = DelinqRows(loan, st)
            /\ payments = DelinqPayments(schedule)
            /\ now = 0
            /\ procs = [p \in Procs |-> Idle]
            /\ result = Result("init", "", 0, NoError, 0, 0)

DelinqNext ==
    \/ IsDelinquentOp
    \/ AdvanceClock

DelinqSpec == DelinqInit /\ [][DelinqNext]_vars

----------------------------------------------------------------------------
(* Loan terms over a wider range: createLoan requests through the handler,
   and CalculateWeeklyPayment applied to terms the handler would rewrite (a
   zero rate) or that the tables of the model do not hold (fifty weeks). *)

CalcPrincipals == {100, 250, 1000, 1001, 50000}
CalcRates == {0, 300, 1000, 1250}
CalcWeeks == Durations \cup {50}

CalcRequests ==
    [loanID : LoanIDs, amount : CalcPrincipals, interestRate : CalcRates,
     durationWeeks : Durations]

CalcCreateLoanOp ==
    /\ loans = {}
    /\ \E req \in CalcRequests : DoCreateLoan(req, NoFail)

CalcWeeklyPaymentOp ==
    /\ \E principal \in CalcPrincipals, annualRate \in CalcRates,
          weeks \in CalcWeeks :
        result' = Result("calculateWeeklyPayment", "", principal, NoError,
                         weeks,
                         CalculateWeeklyPayment(principal, annualRate, weeks))
                    @@ [rate |-> annualRate]
    /\ UNCHANGED <<loans, schedule, payments, now, procs>>

CalcNext ==
    \/ CalcCreateLoanOp
    \/ CalcWeeklyPaymentOp

CalcSpec == Init /\ [][CalcNext]_vars

----------------------------------------------------------------------------
(* loanRepository.CreateSchedule statement by statement.  The batch is
   inserted inside one database transaction: rows inserted by the
   transaction (result.tx) are not in the table other sessions read until
   Commit, and the deferred Rollback discards them when the function has
   returned an error.  An INSERT fails when the database refuses it, here
   on UNIQUE(loan_id, week_number) or on an injected error (result.failAt:
   0 none, k the k-th INSERT, Len + 1 the Commit). *)

BatchLoan ==
    NewLoan([loanID |-> "L1", amount |-> 1000,
             interestRate |-> DefaultAnnualRate, durationWeeks |-> MaxWeeks],
            CalculateWeeklyPayment(1000, DefaultAnnualRate, MaxWeeks), 0)

\* the installment of BatchLoan for week w, as the service builds it
BatchRow(w) == CHOOSE r \in NewSchedule(BatchLoan) : r.weekNumber = w

\* batches handed to CreateSchedule: any week numbers in any order, so also
\* batches that repeat a week
Batches ==
    UNION { [1..n -> 1..MaxWeeks] : n \in 1..MaxWeeks }

TxIdle ==
    [pc |-> "done", batch |-> <<>>, i |-> 0, tx |-> {}, failAt |-> 0,
     before |-> {}]

\* UNIQUE(loan_id, week_number), checked against the committed rows and the
\* rows of the transaction
UniqueViolation(sch, tx, row) ==
    \E r \in sch \cup tx :
        r.loanID = row.loanID /\ r.weekNumber = row.weekNumber

TxRollback_KeepsInserted(sch, tx) == sch \cup tx

\* tx.Rollback(): the rows of the transaction are discarded
TxRollback(sch, tx) == sch

\* tx.Commit(): the rows of the transaction become visible
TxCommit(sch, tx) == sch \cup tx

BatchInit ==
    /\ loans = {BatchLoan}
    /\ schedule = {}
    /\ payments = {}
    /\ now = 0
    /\ procs = [p \in Procs |-> Idle]
    /\ result = Result("init", "", 0, NoError, 0, 0) @@ TxIdle

\* r.db.BeginTxx
BatchBegin ==
    /\ result.pc = "done"
    /\ \E weeks \in Batches, failAt \in 0..(MaxWeeks + 1) :
        /\ failAt <= Len(weeks) + 1
        /\ result' = Result("createSchedule", "L1", 0, NoError, 0, 0)
                        @@ [pc |-> "insert",
                            batch |-> [k \in 1..Len(weeks) |->
                                            BatchRow(weeks[k])],
                            i |-> 1, tx |-> {}, failAt |-> failAt,
                            before |-> schedule]
    /\ UNCHANGED <<loans, schedule, payments, now, procs>>

\* one turn of the loop: tx.ExecContext(INSERT), return err on failure
BatchInsert ==
    /\ result.pc = "insert"
    /\ result.i <= Len(result.batch)
    /\ LET row == result.batch[result.i]
       IN  IF \/ result.failAt = result.i
              \/ UniqueViolation(schedule, result.tx, row)
             THEN result' = [result EXCEPT !.pc = "rollback",
                                           !.err = PersistenceError]
             ELSE result' = [result EXCEPT !.i = result.i + 1,
                                           !.tx = result.tx \cup {row}]
    /\ UNCHANGED <<loans, schedule, payments, now, procs>>

\* return tx.Commit()
BatchCommit ==
    /\ result.pc = "insert"
    /\ result.i > Len(result.batch)
    /\ IF result.failAt = Len(result.batch) + 1
         THEN /\ result' = [result EXCEPT !.pc = "rollback",
                                          !.err = PersistenceError]
              /\ schedule' = schedule
         ELSE /\ result' = [result EXCEPT !.pc = "done",
                                          !.value = Cardinality(result.tx),
                                          !.tx = {}]
              /\ schedule' = TxCommit(schedule, result.tx)
    /\ UNCHANGED <<loans, payments, now, procs>>

\* defer tx.Rollback(), after a return with an error
BatchRollback ==
    /\ result.pc = "rollback"
    /\ schedule' = TxRollback(schedule, result.tx)
    /\ result' = [result EXCEPT !.pc = "done", !.tx = {}]
    /\ UNCHANGED <<loans, payments, now, procs>>

BatchNext ==
    \/ BatchBegin
    \/ BatchInsert
    \/ BatchCommit
    \/ BatchRollback

BatchSpec == BatchInit /\ [][BatchNext]_vars

----------------------------------------------------------------------------
(* The CreateLoan handler from the JSON payload on.  A payload names any of
   the three terms or leaves them out; json.Decode leaves the field of a
   term that is left out at its zero value, which is also what an explicit
   0 decodes to.  Then the defaults are applied, the request is validated
   and, when valid, handed to the service. *)

PayloadFields == {"amount", "interest_rate", "duration_weeks"}
PayloadAmounts == {-100, 0, 1000}
PayloadRates == {-500, 0, 300}
PayloadWeeks == {-1, 0, 2}

Payloads ==
    { p \in [loanID : LoanIDs, given : SUBSET PayloadFields,
             amount : PayloadAmounts, interestRate : PayloadRates,
             durationWeeks : PayloadWeeks] :
        /\ "amount" \notin p.given => p.amount = 0
        /\ "interest_rate" \notin p.given => p.interestRate = 0
        /\ "duration_weeks" \notin p.given => p.durationWeeks = 0 }

\* json.NewDecoder(r.Body).Decode(&req)
Decode(payload) ==
    [loanID |-> payload.loanID,
     amount |-> IF "amount" \in payload.given THEN payload.amount ELSE 0,
     interestRate |-> IF "interest_rate" \in payload.given
                        THEN payload.interestRate ELSE 0,
     durationWeeks |-> IF "duration_weeks" \in payload.given
                        THEN payload.durationWeeks ELSE 0]

\* h.validator.Struct(&req), the validate tags of CreateLoanRequest: loan_id
\* required, amount decimal_gt=0, interest_rate decimal_gte=0, duration_weeks
\* gt=0 (no term is zero once the defaults have been applied)
ValidCreateLoanRequest(req) ==
    /\ req.loanID # ""
    /\ req.amount > 0
    /\ req.interestRate >= 0
    /\ req.durationWeeks > 0

HandleCreateLoan(payload) ==
    LET req == ApplyDefaults(Decode(payload))
    IN  IF ~ValidCreateLoanRequest(req)
          THEN /\ result' = Result("createLoan", payload.loanID, req.amount,
                                   NoError, 0, 0)
                              @@ [http |-> StatusBadRequest,
                                  payload |-> payload, request |-> Nil]
               /\ UNCHANGED <<loans, schedule, payments, now, procs>>
          ELSE /\ \E r \in { CreateLoan(loans, schedule, req, Now(tod),
                                         NoFail) :
                                tod \in 0..(TicksPerDay - 1) } :
                    /\ loans' = r.loans
                    /\ schedule' = r.schedule
                    /\ result' = Result("createLoan", payload.loanID,
                                        req.amount, r.err, 0,
                                        Cardinality(r.rows))
                                    @@ [http |-> IF r.err = NoError
                                                   THEN StatusCreated
                                                   ELSE StatusInternalServerError,
                                        payload |-> payload, request |-> req]
               /\ UNCHANGED <<payments, now, procs>>

HandlerCreateLoanOp == \E payload \in Payloads : HandleCreateLoan(payload)

HandlerSpec == Init /\ [][HandlerCreateLoanOp]_vars

----------------------------------------------------------------------------
Loan(l) == GetByLoanID(loans, l)

(* Concurrent makePayment requests.  The HTTP server runs each request on
   its own goroutine and the service takes no lock and opens no transaction
   around its repository calls, so two requests interleave between any two
   calls.  Each step below is one repository call of MakePayment; procs[p]
   holds what the request has read so far. *)

ConcAmounts ==
    {0, 2000} \cup { CalculateWeeklyPayment(1000, DefaultAnnualRate, n) :
                    n \in Durations }

Return(p, err, week) ==
    /\ procs' = [procs EXCEPT ![p] = Idle]
    /\ result' = Result("makePayment", procs[p].loanID, procs[p].amount, err,
                        week, 0)

\* request received: the amount is validated before any repository call
PayBegin(p) ==
    /\ procs[p].pc = "idle"
    /\ \E loanID \in LoanIDs, amount \in ConcAmounts :
        IF amount <= 0
          THEN /\ procs' = procs
               /\ result' = Result("makePayment", loanID, amount,
                                   InvalidPaymentAmount, 0, 0)
          ELSE /\ procs' = [procs EXCEPT ![p] = [Idle EXCEPT
                                                   !.pc = "getLoan",
                                                   !.loanID = loanID,
                                                   !.amount = amount]]
               /\ result' = Result("request", "", 0, NoError, 0, 0)
    /\ UNCHANGED <<loans, schedule, payments, now>>

PayGetLoan(p) ==
    /\ procs[p].pc = "getLoan"
    /\ IF ~LoanFound(loans, procs[p].loanID)
         THEN Return(p, PersistenceError, 0)
       ELSE IF Loan(procs[p].loanID).status # LoanStatusActive
         THEN Return(p, AlreadyClosed, 0)
       ELSE /\ procs' = [procs EXCEPT ![p].pc = "getSchedule"]
            /\ result' = Result("step", "", 0, NoError, 0, 0)
    /\ UNCHANGED <<loans, schedule, payments, now>>

PayGetSchedule(p) ==
    /\ procs[p].pc = "getSchedule"
    /\ LET schedules == GetScheduleByLoanID(schedule, procs[p].loanID)
           next == FirstPending(schedules)
       IN  IF next = 0
             THEN Return(p, NoOutstandingBalance, 0)
           ELSE IF ~AmountMatches(procs[p].amount,
                                  Loan(procs[p].loanID).weeklyPayment)
             THEN Return(p, PaymentAmountMismatch, 0)
           ELSE /\ procs' = [procs EXCEPT
                              ![p].pc = "createPayment",
                              ![p].week = schedules[next].weekNumber,
                              ![p].closes =
                                  AllOthersPaid(schedules,
                                                schedules[next].weekNumber)]
                /\ result' = Result("step", "", 0, NoError, 0, 0)
    /\ UNCHANGED <<loans, schedule, payments, now>>

PayCreatePayment(p) ==
    /\ procs[p].pc = "createPayment"
    /\ payments' = PaymentCreate(payments,
                                 [loanID |-> procs[p].loanID,
                                  amount |-> procs[p].amount,
                                  weekNumber |-> procs[p].week])
    /\ procs' = [procs EXCEPT ![p].pc = "updateSchedule"]
    /\ result' = Result("step", "", 0, NoError, 0, 0)
    /\ UNCHANGED <<loans, schedule, now>>

PayUpdateSchedule(p) ==
    /\ procs[p].pc = "updateSchedule"
    /\ schedule' = UpdateScheduleStatus(schedule, procs[p].loanID,
                                        procs[p].week, ScheduleStatusPaid)
    /\ IF procs[p].closes
         THEN /\ procs' = [procs EXCEPT ![p].pc = "updateLoan"]
              /\ result' = Result("step", "", 0, NoError, 0, 0)
         ELSE Return(p, NoError, procs[p].week)
    /\ UNCHANGED <<loans, payments, now>>

PayUpdateLoan(p) ==
    /\ procs[p].pc = "updateLoan"
    /\ loans' = LoanUpdate(loans, [Loan(procs[p].loanID) EXCEPT
                                     !.status = LoanStatusClosed])
    /\ Return(p, NoError, procs[p].week)
    /\ UNCHANGED <<schedule, payments, now>>

ConcInit ==
    \E n \in Durations :
        LET req == [loanID |-> "L1", amount |-> 1000,
                    interestRate |-> DefaultAnnualRate, durationWeeks |-> n]
            r == CreateLoan({}, {}, req, 0, NoFail)
        IN  /\ loans = r.loans
            /\ schedule = r.schedule
            /\ payments = {}
            /\ now = 0
            /\ procs = [p \in Procs |-> Idle]
            /\ result = Result("init", "", 0, NoError, 0, 0)

ConcNext ==
    \E p \in Procs :
        \/ PayBegin(p)
        \/ PayGetLoan(p)
        \/ PayGetSchedule(p)
        \/ PayCreatePayment(p)
        \/ PayUpdateSchedule(p)
        \/ PayUpdateLoan(p)

ConcSpec == ConcInit /\ [][ConcNext]_vars

----------------------------------------------------------------------------
(* Concurrent createLoan requests.  Each request runs on its own goroutine
   and the service takes no lock, so requests interleave between any two
   repository calls.  Each step below is one repository call of CreateLoan:
   the lookup, the INSERT of the loan row (one statement, refused by
   UNIQUE(loan_id) when a row with that loan_id is already there), and
   CreateSchedule (one transaction).  Every request-serving thread takes one
   request; procs[p] holds its request, the loan it built and, once it has
   returned, its error. *)

CrIdle == [pc |-> "idle", req |-> Nil, loan |-> Nil, err |-> NoError]

LoanUniqueViolation_None(ls, loan) == FALSE

\* loan_id VARCHAR(50) UNIQUE NOT NULL
LoanUniqueViolation(ls, loan) == \E r \in ls : r.loanID = loan.loanID

CrReturn(p, err) ==
    /\ procs' = [procs EXCEPT ![p].pc = "returned", ![p].err = err]
    /\ result' = Result("createLoan", procs[p].req.loanID,
                        procs[p].req.amount, err, 0, 0)

\* request received by the handler
CrBegin(p) ==
    /\ procs[p].pc = "idle"
    /\ \E req \in Requests :
        procs' = [procs EXCEPT ![p] = [CrIdle EXCEPT
                                         !.pc = "getLoan",
                                         !.req = ApplyDefaults(req)]]
    /\ result' = Result("request", "", 0, NoError, 0, 0)
    /\ UNCHANGED <<loans, schedule, payments, now>>

\* GetByLoanID: the loan must not be found
CrGetLoan(p) ==
    /\ procs[p].pc = "getLoan"
    /\ IF LoanFound(loans, procs[p].req.loanID)
         THEN CrReturn(p, AlreadyExists)
         ELSE /\ \E tod \in 0..(TicksPerDay - 1) :
                    procs' = [procs EXCEPT
                        ![p].pc = "create",
                        ![p].loan =
                            NewLoan(procs[p].req,
                                    CalculateWeeklyPayment(
                                        procs[p].req.amount,
                                        procs[p].req.interestRate,
                                        procs[p].req.durationWeeks),
                                    Truncate(Now(tod)))]
              /\ result' = Result("step", "", 0, NoError, 0, 0)
    /\ UNCHANGED <<loans, schedule, payments, now>>

\* loanRepo.Create
CrCreate(p) ==
    /\ procs[p].pc = "create"
    /\ IF LoanUniqueViolation(loans, procs[p].loan)
         THEN /\ CrReturn(p, PersistenceError)
              /\ loans' = loans
         ELSE /\ loans' = LoanCreate(loans, procs[p].loan)
              /\ procs' = [procs EXCEPT ![p].pc = "createSchedule"]
              /\ result' = Result("step", "", 0, NoError, 0, 0)
    /\ UNCHANGED <<schedule, payments, now>>

\* loanRepo.CreateSchedule: the whole batch or nothing
CrCreateSchedule(p) ==
    /\ procs[p].pc = "createSchedule"
    /\ IF \E row \in NewSchedule(procs[p].loan) :
            UniqueViolation(schedule, {}, row)
         THEN /\ CrReturn(p, PersistenceError)
              /\ schedule' = schedule
         ELSE /\ schedule' = CreateSchedule(schedule,
                                            NewSchedule(procs[p].loan))
              /\ CrReturn(p, NoError)
    /\ UNCHANGED <<loans, payments, now>>

CrInit ==
    /\ loans = {}
    /\ schedule = {}
    /\ payments = {}
    /\ now = 0
    /\ procs = [p \in Procs |-> CrIdle]
    /\ result = Result("init", "", 0, NoError, 0, 0)

CrNext ==
    \E p \in Procs :
        \/ CrBegin(p)
        \/ CrGetLoan(p)
        \/ CrCreate(p)
        \/ CrCreateSchedule(p)

CrSpec == CrInit /\ [][CrNext]_vars

----------------------------------------------------------------------------
(* Two loans side by side: the same four operations, one request at a time
   and every repository call succeeding, on two loan ids.  Requests arrive
   on the day the loans are created and on the days installments fall due,
   so the clock moves a week at a time. *)

PairLoanIDs == {"L1", "L2"}

PairRequests ==
    [loanID : PairLoanIDs, amount : Principals, interestRate : {300},
     durationWeeks : {2, MaxWeeks}]

PairCreateLoanOp == \E req \in PairRequests : DoCreateLoan(req, NoFail)

PairMakePaymentOp ==
    \E loanID \in PairLoanIDs, amount \in Amounts :
        DoMakePayment(loanID, amount, NoFail)

PairGetOutstandingOp ==
    \E loanID \in PairLoanIDs : DoGetOutstanding(loanID, NoFail)

PairIsDelinquentOp ==
    \E loanID \in PairLoanIDs : DoIsDelinquent(loanID, NoFail)

PairAdvanceClock ==
    /\ now + DaysPerWeek <= MaxDay
    /\ now' = now + DaysPerWeek
    /\ result' = Result("tick", "", 0, NoError, 0, 0)
    /\ UNCHANGED <<loans, schedule, payments, procs>>

PairNext ==
    \/ PairCreateLoanOp
    \/ PairMakePaymentOp
    \/ PairGetOutstandingOp
    \/ PairIsDelinquentOp
    \/ PairAdvanceClock

PairSpec == Init /\ [][PairNext]_vars

----------------------------------------------------------------------------
(* Vocabulary of the properties *)

Rows(sch, l) == { r \in sch : r.loanID = l }

PendingRows(sch, l) ==
    { r \in Rows(sch, l) : r.status = ScheduleStatusPending }

PaymentRows(ps, l) == { p \in ps : p.loanID = l }

\* the step is a makePayment on l that returned a payment
AcceptedPayment(l) ==
    /\ result'.op = "makePayment"
    /\ result'.loanID = l
    /\ result'.err = NoError

\* the step is a makePayment on l, whatever it returned
PaymentCall(l) ==
    /\ result'.op = "makePayment"
    /\ result'.loanID = l

Today == now * TicksPerDay

----------------------------------------------------------------------------
(* C1: every accepted makePayment records the lowest pending week number of
   the loan at the time of the call and turns exactly that installment to
   paid, however many installments are pending or already past due. *)
C1_EarliestPendingPaid ==
    [][\A l \in LoanIDs : AcceptedPayment(l) =>
        LET pending == PendingRows(schedule, l)
        IN  /\ pending # {}
            /\ \A r \in pending : result'.week <= r.weekNumber
            /\ \E r \in pending :
                /\ r.weekNumber = result'.week
                /\ schedule' = (schedule \ {r})
                                \cup {[r EXCEPT !.status = ScheduleStatusPaid]}
            /\ \E p \in payments' :
                /\ p \notin payments
                /\ p.loanID = l
                /\ p.weekNumber = result'.week
                /\ payments' = payments \cup {p}
    ]_vars

\* a payment went to week 1 while two or more installments stay pending,
\* one of them already past due
C1_Witness ==
    /\ result.op = "makePayment"
    /\ result.err = NoError
    /\ result.week = 1
    /\ Cardinality(PendingRows(schedule, result.loanID)) >= 2
    /\ \E r \in PendingRows(schedule, result.loanID) : r.dueDate < Today

----------------------------------------------------------------------------
(* C2: a makePayment that pays the only pending installment of the loan
   leaves the loan closed in the same step; the loan then stays closed, no
   later makePayment creates a payment, and a later makePayment fails with
   AlreadyClosed when its amount is positive and with InvalidAmount (the
   check that comes first) when its amount is zero or negative. *)
C2_LastPaymentCloses ==
    [][\A l \in LoanIDs :
        /\ (AcceptedPayment(l) /\ Cardinality(PendingRows(schedule, l)) = 1)
            => /\ LoanFound(loans', l)
               /\ GetByLoanID(loans', l).status = LoanStatusClosed
        /\ (LoanFound(loans, l) /\ Loan(l).status = LoanStatusClosed)
            => /\ LoanFound(loans', l)
               /\ GetByLoanID(loans', l).status = LoanStatusClosed
               /\ PaymentCall(l) =>
                    /\ payments' = payments
                    /\ result'.err = IF result'.amount > 0
                                       THEN AlreadyClosed
                                       ELSE InvalidPaymentAmount
    ]_vars

\* a makePayment of the right amount was refused on the fully paid, closed loan
C2_Witness ==
    /\ result.op = "makePayment"
    /\ result.err = AlreadyClosed
    /\ LoanFound(loans, result.loanID)
    /\ Loan(result.loanID).status = LoanStatusClosed
    /\ result.amount = Loan(result.loanID).weeklyPayment
    /\ Cardinality(PaymentRows(payments, result.loanID))
         = Loan(result.loanID).durationWeeks

\* C2 as first stated: every makePayment on a closed loan fails AlreadyClosed
C2_AsStated ==
    [][\A l \in LoanIDs :
        /\ (AcceptedPayment(l) /\ Cardinality(PendingRows(schedule, l)) = 1)
            => /\ LoanFound(loans', l)
               /\ GetByLoanID(loans', l).status = LoanStatusClosed
        /\ (LoanFound(loans, l) /\ Loan(l).status = LoanStatusClosed)
            => /\ LoanFound(loans', l)
               /\ GetByLoanID(loans', l).status = LoanStatusClosed
               /\ PaymentCall(l) =>
                    /\ payments' = payments
                    /\ result'.err = AlreadyClosed
    ]_vars

----------------------------------------------------------------------------
(* C3: however concurrent makePayment requests on one loan interleave, no
   two payment records of the loan carry the same week number and the loan
   never has more payment records than installments. *)
C3_OnePaymentPerInstallment ==
    \A l \in LoanIDs : LoanFound(loans, l) =>
        /\ \A p, q \in PaymentRows(payments, l) :
            p # q => p.weekNumber # q.weekNumber
        /\ Cardinality(PaymentRows(payments, l)) <= Loan(l).durationWeeks

\* both requests have returned a payment and the loan has two payment records
C3_Witness ==
    /\ \A p \in Procs : procs[p].pc = "idle"
    /\ result.op = "makePayment"
    /\ result.err = NoError
    /\ Cardinality(PaymentRows(payments, "L1")) >= 2

----------------------------------------------------------------------------
(* C4: across every accepted makePayment the value getOutstanding returns
   for the loan drops by exactly the loan's weeklyPayment. *)
C4_OutstandingDropsByWeekly ==
    [][\A l \in LoanIDs : AcceptedPayment(l) =>
        LET before == GetOutstanding(loans, payments, l, NoFail)
            after  == GetOutstanding(loans', payments', l, NoFail)
        IN  /\ before.err = NoError
            /\ after.err = NoError
            /\ after.value = before.value - Loan(l).weeklyPayment * RateScale
    ]_vars

\* a second payment was accepted on a loan that carries interest
C4_Witness ==
    /\ result.op = "makePayment"
    /\ result.err = NoError
    /\ result.week = 2
    /\ Loan(result.loanID).interestRate > 0
    /\ Cardinality(PaymentRows(payments, result.loanID)) = 2

----------------------------------------------------------------------------
(* C5: in every state reached by createLoan and makePayment calls the
   outstanding balance of every loan is zero or more. *)
C5_OutstandingNonNegative ==
    \A l \in LoanIDs : LoanFound(loans, l) =>
        GetOutstanding(loans, payments, l, NoFail).value >= 0

\* every installment of a loan was paid, each at the rounded weekly amount
C5_Witness ==
    /\ result.op = "makePayment"
    /\ result.err = NoError
    /\ PendingRows(schedule, result.loanID) = {}
    /\ Loan(result.loanID).durationWeeks = 3

----------------------------------------------------------------------------
(* C6: no makePayment is accepted unless its amount is exactly the loan's
   weeklyPayment; a zero or negative amount always fails InvalidAmount; on
   an active loan with a pending installment every amount different from
   weeklyPayment, greater ones included, fails InvalidAmount and changes
   nothing. *)
C6_ExactAmountOnly ==
    [][\A l \in LoanIDs : PaymentCall(l) =>
        /\ result'.err = NoError
            => /\ LoanFound(loans, l)
               /\ result'.amount = Loan(l).weeklyPayment
        /\ result'.amount <= 0 => result'.err \in InvalidAmount
        /\ ( /\ LoanFound(loans, l)
             /\ Loan(l).status = LoanStatusActive
             /\ PendingRows(schedule, l) # {}
             /\ result'.amount # Loan(l).weeklyPayment )
            => /\ result'.err \in InvalidAmount
               /\ UNCHANGED <<loans, schedule, payments>>
    ]_vars

\* an amount above the installment was refused on a payable loan
C6_Witness ==
    /\ result.op = "makePayment"
    /\ result.err = PaymentAmountMismatch
    /\ LoanFound(loans, result.loanID)
    /\ result.amount > Loan(result.loanID).weeklyPayment
    /\ Loan(result.loanID).status = LoanStatusActive
    /\ PendingRows(schedule, result.loanID) # {}

\* C6 as first stated: any amount other than weeklyPayment fails InvalidAmount
C6_AsStated ==
    [][\A l \in LoanIDs : (PaymentCall(l) /\ LoanFound(loans, l)) =>
        /\ result'.err = NoError => result'.amount = Loan(l).weeklyPayment
        /\ result'.amount # Loan(l).weeklyPayment
            => result'.err \in InvalidAmount
    ]_vars

----------------------------------------------------------------------------
(* Delinquency vocabulary: the installments of l due strictly before today
   (dates compared by day), ascending by due date, and the runs of pending
   installments among them. *)
PastDue(l) ==
    SortByDueDate({ r \in Rows(schedule, l) : Truncate(r.dueDate) < Today })

IsPendingRun(seq, i, j) ==
    \A k \in i..j : seq[k].status = ScheduleStatusPending

HasPendingRun(seq, k) ==
    \E i \in 1..Len(seq) :
        /\ i + k - 1 <= Len(seq)
        /\ IsPendingRun(seq, i, i + k - 1)

DelinquentAnswer ==
    /\ result.op = "isDelinquent"
    /\ result.err = NoError

(* C7: on an active loan isDelinquent answers true exactly when the
   installments due strictly before today contain a run of at least two
   consecutive pending installments. *)
C7_DelinquentIffRun ==
    DelinquentAnswer =>
        (result.value <=> HasPendingRun(PastDue(result.loanID),
                                        DelinquentThreshold))

\* isDelinquent answered true with two installments pending before today
C7_Witness ==
    /\ DelinquentAnswer
    /\ result.value
    /\ Len(PastDue(result.loanID)) >= 2
    /\ IsPendingRun(PastDue(result.loanID), 1, 2)

(* C8: when every run of consecutive pending installments among those due
   strictly before today is shorter than the threshold, isDelinquent answers
   false, however many installments are missed in total. *)
C8_PaidResetsCounter ==
    LET seq == PastDue(result.loanID)
    IN  ( /\ DelinquentAnswer
          /\ \A i \in 1..Len(seq) : \A j \in i..Len(seq) :
                IsPendingRun(seq, i, j) => j - i + 1 < DelinquentThreshold )
        => result.value = FALSE

\* missed, paid, missed, all before today: isDelinquent answered false
C8_Witness ==
    /\ DelinquentAnswer
    /\ result.value = FALSE
    /\ Len(PastDue(result.loanID)) = 3
    /\ PastDue(result.loanID)[1].status = ScheduleStatusPending
    /\ PastDue(result.loanID)[2].status = ScheduleStatusPaid
    /\ PastDue(result.loanID)[3].status = ScheduleStatusPending

----------------------------------------------------------------------------
(* C9: a loan's status changes only from active to closed, and only in the
   accepted makePayment that pays its last pending installment; a closed
   loan stays closed, no step gives a loan the status default, a new loan
   starts active, and isDelinquent changes no loan whatever it answers. *)
C9_StatusOnlyActiveToClosed ==
    [][/\ \A l \in LoanIDs :
            /\ LoanFound(loans, l) =>
                /\ LoanFound(loans', l)
                /\ GetByLoanID(loans', l).status # Loan(l).status =>
                    /\ Loan(l).status = LoanStatusActive
                    /\ GetByLoanID(loans', l).status = LoanStatusClosed
                    /\ AcceptedPayment(l)
                    /\ Cardinality(PendingRows(schedule, l)) = 1
                    /\ PendingRows(schedule', l) = {}
            /\ (~LoanFound(loans, l) /\ LoanFound(loans', l)) =>
                GetByLoanID(loans', l).status = LoanStatusActive
       /\ \A r \in loans' : r.status # LoanStatusDefault
       /\ result'.op \in {"isDelinquent", "getOutstanding",
                          "updateOverduePayments", "tick"} => loans' = loans
    ]_vars

\* isDelinquent answered true and the loan is still active
C9_Witness ==
    /\ DelinquentAnswer
    /\ result.value
    /\ Loan(result.loanID).status = LoanStatusActive
    /\ Cardinality(PendingRows(schedule, result.loanID)) >= 2

----------------------------------------------------------------------------
(* C10: a successful createLoan stores exactly durationWeeks installments
   for the loan, numbered 1 to durationWeeks, all pending, each due the
   loan's weeklyPayment, week w due 7*w days after the creation date. *)
C10_ScheduleShape ==
    [][\A l \in LoanIDs :
        ( /\ result'.op = "createLoan"
          /\ result'.loanID = l
          /\ result'.err = NoError ) =>
        LET loan == GetByLoanID(loans', l)
            rows == Rows(schedule', l)
        IN  /\ LoanFound(loans', l)
            /\ Cardinality(rows) = loan.durationWeeks
            /\ { r.weekNumber : r \in rows } = 1..loan.durationWeeks
            /\ loan.createdAt = Today
            /\ \A r \in rows :
                /\ r.status = ScheduleStatusPending
                /\ r.dueAmount = loan.weeklyPayment
                /\ r.dueDate = (now + 7 * r.weekNumber) * TicksPerDay
    ]_vars

\* a three-week loan was created on a day other than day zero
C10_Witness ==
    /\ result.op = "createLoan"
    /\ result.err = NoError
    /\ result.value >= 3
    /\ now >= 1
    /\ \E r \in Rows(schedule, result.loanID) :
        r.weekNumber = 3 /\ r.dueDate = (now + 21) * TicksPerDay

----------------------------------------------------------------------------
(* C11: the weeklyPayment of every created loan, and every value
   CalculateWeeklyPayment returns, is (P + P*r)/N rounded half-up to the
   cent: it is the one whole number of cents w with
   w - 1/2 <= (P + P*r)/N < w + 1/2; with r = 0 that is P/N rounded. *)
RoundsHalfUp(w, principal, annualRate, weeks) ==
    LET owed == principal * RateScale + principal * annualRate
        unit == RateScale * weeks
    IN  /\ 2 * w * unit - unit <= 2 * owed
        /\ 2 * owed < 2 * w * unit + unit

C11_WeeklyPaymentRounded ==
    /\ \A loan \in loans :
        RoundsHalfUp(loan.weeklyPayment, loan.amount, loan.interestRate,
                     loan.durationWeeks)
    /\ result.op = "calculateWeeklyPayment" =>
        RoundsHalfUp(result.value, result.amount, result.rate, result.week)

\* createLoan stored 3.67 a week for 10.00 at 10% over 3 weeks (3.666... up)
C11_Witness ==
    /\ result.op = "createLoan"
    /\ result.err = NoError
    /\ \E loan \in loans :
        /\ loan.amount = 1000
        /\ loan.interestRate = 1000
        /\ loan.durationWeeks = 3
        /\ loan.weeklyPayment = 367

----------------------------------------------------------------------------
(* C12: for every existing loan getOutstanding succeeds and returns
   principal + principal*rate of the stored loan minus the sum of the
   amounts of all payment rows stored for that loan. *)
RECURSIVE SumOfRows(_)
SumOfRows(rows) ==
    IF rows = {} THEN 0
    ELSE LET p == CHOOSE q \in rows : TRUE
         IN  p.amount + SumOfRows(rows \ {p})

C12_OutstandingFormula ==
    (result.op = "getOutstanding" /\ LoanFound(loans, result.loanID)) =>
        LET loan == Loan(result.loanID)
        IN  /\ result.err = NoError
            /\ result.value =
                 loan.amount * RateScale + loan.amount * loan.interestRate
                 - RateScale * SumOfRows(PaymentRows(payments, result.loanID))

\* getOutstanding after two of three payments of 3.67 on the 10.00 loan at
\* 10%: 11.00 - 7.34 = 3.66
C12_Witness ==
    /\ result.op = "getOutstanding"
    /\ result.err = NoError
    /\ Cardinality(PaymentRows(payments, result.loanID)) = 2
    /\ Loan(result.loanID).weeklyPayment = 367
    /\ result.value = 366 * RateScale

----------------------------------------------------------------------------
(* C13: once every installment of a loan has been paid and the loan is
   closed, getOutstanding returns exactly 0. *)
FullyPaid(l) ==
    /\ LoanFound(loans, l)
    /\ Loan(l).status = LoanStatusClosed
    /\ PendingRows(schedule, l) = {}
    /\ Cardinality(PaymentRows(payments, l)) = Loan(l).durationWeeks

C13_ZeroWhenFullyPaid ==
    ( /\ result.op = "getOutstanding"
      /\ result.err = NoError
      /\ FullyPaid(result.loanID) ) => result.value = 0

\* a fully paid two-week loan (2 x 5.50 = 11.00) reports 0
C13_Witness ==
    /\ result.op = "getOutstanding"
    /\ result.err = NoError
    /\ FullyPaid(result.loanID)
    /\ Loan(result.loanID).durationWeeks = 2
    /\ result.value = 0

----------------------------------------------------------------------------
(* C14: whatever a createLoan call returned, every stored loan has its
   full schedule of exactly durationWeeks installments. *)
C14_NoLoanWithoutSchedule ==
    \A loan \in loans :
        Cardinality(Rows(schedule, loan.loanID)) = loan.durationWeeks

\* createLoan failed while inserting the loan row: nothing was stored
C14_Witness ==
    /\ result.op = "createLoan"
    /\ result.fail = "Create"
    /\ result.err = PersistenceError
    /\ loans = {}
    /\ schedule = {}

----------------------------------------------------------------------------
(* C15: a createLoan whose lookup finds the loan fails with AlreadyExists,
   one whose lookup errors fails with PersistenceError; both return no loan
   and no schedule and leave loans, schedule and payments as they were; a
   createLoan changes the tables only when the lookup reported not-found. *)
C15_CreateOnlyWhenNotFound ==
    [][\A l \in LoanIDs : (result'.op = "createLoan" /\ result'.loanID = l) =>
        LET exists == \E r \in loans : r.loanID = l
            lookupFailed == result'.fail = "GetByLoanID"
            nothing == /\ UNCHANGED <<loans, schedule, payments>>
                       /\ result'.loan = Nil
                       /\ result'.value = 0
        IN  /\ lookupFailed => (result'.err = PersistenceError /\ nothing)
            /\ (exists /\ ~lookupFailed) =>
                    (result'.err = AlreadyExists /\ nothing)
            /\ ~UNCHANGED <<loans, schedule, payments>> =>
                    (~exists /\ ~lookupFailed)
    ]_vars

\* createLoan on a loan that has a payment already: refused, nothing changed
C15_Witness ==
    /\ result.op = "createLoan"
    /\ result.err = AlreadyExists
    /\ result.loan = Nil
    /\ PaymentRows(payments, result.loanID) # {}
    /\ PendingRows(schedule, result.loanID) # {}

----------------------------------------------------------------------------
(* C16: a makePayment in which no call after the loan lookup fails reports
   the first failing check of: amount <= 0 (InvalidAmount, whatever the
   persistence does), loan lookup failed or no such loan
   (PersistenceError), loan not active (AlreadyClosed), no pending
   installment (NoOutstandingBalance), amount different from weeklyPayment
   (InvalidAmount); it is accepted only when none fails. *)
FirstFailingCheck(l, amount, fail) ==
    LET rows == { r \in loans : r.loanID = l }
        loan == CHOOSE r \in rows : TRUE
    IN  IF amount <= 0 THEN InvalidAmount
        ELSE IF fail = "GetByLoanID" \/ rows = {} THEN {PersistenceError}
        ELSE IF loan.status # LoanStatusActive THEN {AlreadyClosed}
        ELSE IF \A r \in schedule :
                    r.loanID = l => r.status # ScheduleStatusPending
            THEN {NoOutstandingBalance}
        ELSE IF amount # loan.weeklyPayment THEN InvalidAmount
        ELSE {NoError}

C16_FirstFailingCheck ==
    [][\A l \in LoanIDs :
        /\ (PaymentCall(l) /\ result'.amount <= 0) =>
            /\ result'.err \in InvalidAmount
            /\ UNCHANGED <<loans, schedule, payments>>
        /\ (PaymentCall(l) /\ result'.fail \in {NoFail, "GetByLoanID"}) =>
            /\ result'.err \in FirstFailingCheck(l, result'.amount,
                                                 result'.fail)
            /\ result'.err # NoError =>
                UNCHANGED <<loans, schedule, payments>>
    ]_vars

\* an active loan with every installment paid and a wrong positive amount
C16_Witness ==
    /\ result.op = "makePayment"
    /\ result.err = NoOutstandingBalance
    /\ result.amount = 2000
    /\ LoanFound(loans, result.loanID)
    /\ Loan(result.loanID).status = LoanStatusActive
    /\ Rows(schedule, result.loanID) # {}
    /\ PendingRows(schedule, result.loanID) = {}

----------------------------------------------------------------------------
(* C17: every MakePayment request whose payment the service accepted and
   stored is answered 200 with the payment, the outstanding balance after
   the payment and the delinquency flag after the payment. *)
C17_AcceptedPaymentAnswered ==
    (result.op = "makePayment" /\ result.err = NoError) =>
        /\ result.http = StatusOK
        /\ result.payment # Nil
        /\ result.payment.weekNumber = result.week
        /\ result.outstanding =
             Loan(result.loanID).amount * RateScale
             + Loan(result.loanID).amount * Loan(result.loanID).interestRate
             - RateScale * SumOfRows(PaymentRows(payments, result.loanID))

\* the first payment of a three-week loan was answered 200 with its payload
C17_Witness ==
    /\ result.op = "makePayment"
    /\ result.err = NoError
    /\ result.http = StatusOK
    /\ result.week = 1
    /\ result.payment # Nil
    /\ Loan(result.loanID).durationWeeks = 3
    /\ result.isDelinquent = FALSE

----------------------------------------------------------------------------
(* C18: isDelinquent on a stored loan that is not active fails with
   AlreadyClosed and gives no verdict, and it does so without reading the
   schedule: a failing schedule read makes no difference. *)
C18_NotActiveNoVerdict ==
    ( /\ result.op = "isDelinquent"
      /\ result.fail \in {NoFail, "GetScheduleByLoanID"}
      /\ \E r \in loans : r.loanID = result.loanID
                          /\ r.status # LoanStatusActive )
    => /\ result.err = AlreadyClosed
       /\ result.value = FALSE

\* the schedule read would have failed, yet the closed loan answers AlreadyClosed
C18_Witness ==
    /\ result.op = "isDelinquent"
    /\ result.fail = "GetScheduleByLoanID"
    /\ result.err = AlreadyClosed
    /\ Loan(result.loanID).status = LoanStatusClosed

----------------------------------------------------------------------------
(* C19: with createLoan and makePayment called one at a time and no
   persistence call failing, a loan is closed exactly when none of its
   installments is pending. *)
C19_ClosedIffNonePending ==
    \A loan \in loans :
        (loan.status = LoanStatusClosed)
            <=> (\A r \in schedule :
                    r.loanID = loan.loanID => r.status # ScheduleStatusPending)

\* a three-week loan with two installments paid is still active
C19_Witness ==
    /\ result.op = "makePayment"
    /\ result.err = NoError
    /\ result.week = 2
    /\ Loan(result.loanID).status = LoanStatusActive
    /\ Cardinality(PendingRows(schedule, result.loanID)) = 1

----------------------------------------------------------------------------
(* C20: isDelinquent counts only installments due strictly before today,
   dates compared by day: the answer is the one the installments due before
   today give alone, so no installment due today or later, at whatever time
   of day, changes it. *)
C20_OnlyBeforeToday ==
    DelinquentAnswer =>
        result.value =
            IsDelinquent(loans,
                         { r \in schedule : Truncate(r.dueDate) < Today },
                         result.loanID, Today, NoFail).value

\* an installment due today after midnight is pending, one installment is
\* missed before it: the answer is false
C20_Witness ==
    /\ DelinquentAnswer
    /\ result.value = FALSE
    /\ \E r \in PendingRows(schedule, result.loanID) :
        /\ Truncate(r.dueDate) = Today
        /\ r.dueDate > Today
    /\ \E r \in PendingRows(schedule, result.loanID) : r.dueDate < Today

----------------------------------------------------------------------------
(* C21: a makePayment that returns InvalidAmount, AlreadyClosed,
   NoOutstandingBalance, or PersistenceError because the loan lookup failed
   or found no loan, leaves the tables as they were: no payment row is
   added, no installment changes, no loan is written. *)
C21_RefusedPaymentWritesNothing ==
    [][\A l \in LoanIDs :
        ( /\ PaymentCall(l)
          /\ \/ result'.err \in InvalidAmount
             \/ result'.err = AlreadyClosed
             \/ result'.err = NoOutstandingBalance
             \/ /\ result'.err = PersistenceError
                /\ \/ result'.fail = "GetByLoanID"
                   \/ ~\E r \in loans : r.loanID = l )
        => UNCHANGED <<loans, schedule, payments>>
    ]_vars

\* an amount above the installment was refused on a loan that has one
\* payment stored and installments pending
C21_Witness ==
    /\ result.op = "makePayment"
    /\ result.err = PaymentAmountMismatch
    /\ result.amount = 2000
    /\ Cardinality(PaymentRows(payments, result.loanID)) = 1
    /\ PendingRows(schedule, result.loanID) # {}

----------------------------------------------------------------------------
(* C22: after every makePayment, one that failed with PersistenceError in
   one of its writes included, each loan has as many payment rows as paid
   installments and every payment row names a paid installment. *)
PaidRows(sch, l) == { r \in Rows(sch, l) : r.status = ScheduleStatusPaid }

C22_PaymentsMatchPaidInstallments ==
    \A l \in LoanIDs :
        /\ Cardinality(PaymentRows(payments, l))
             = Cardinality(PaidRows(schedule, l))
        /\ \A p \in PaymentRows(payments, l) :
            \E r \in PaidRows(schedule, l) : r.weekNumber = p.weekNumber

\* the loan update of the last payment failed: the payment and its paid
\* installment are both stored
C22_Witness ==
    /\ result.op = "makePayment"
    /\ result.fail = "Update"
    /\ result.err = PersistenceError
    /\ Cardinality(PaymentRows(payments, result.loanID)) = 2
    /\ Cardinality(PaidRows(schedule, result.loanID)) = 2
    /\ PendingRows(schedule, result.loanID) = {}

----------------------------------------------------------------------------
(* C23: an installment's status changes only from pending to paid, and only
   in the accepted makePayment that is applied to its week; a paid
   installment stays paid, no installment is ever overdue, and once a loan
   has its installments their week numbers, due amounts and due dates never
   change. *)
Terms(rows) ==
    { [weekNumber |-> r.weekNumber, dueAmount |-> r.dueAmount,
       dueDate |-> r.dueDate] : r \in rows }

C23_InstallmentOnlyPendingToPaid ==
    [][\A l \in LoanIDs :
        /\ (\E r \in loans : r.loanID = l) =>
            /\ Terms(Rows(schedule', l)) = Terms(Rows(schedule, l))
            /\ Cardinality(Rows(schedule', l)) = Cardinality(Rows(schedule, l))
        /\ \A r \in Rows(schedule, l), q \in Rows(schedule', l) :
            (q.weekNumber = r.weekNumber /\ q.status # r.status) =>
                /\ r.status = ScheduleStatusPending
                /\ q.status = ScheduleStatusPaid
                /\ AcceptedPayment(l)
                /\ result'.week = r.weekNumber
        /\ \A q \in Rows(schedule', l) : q.status # ScheduleStatusOverdue
    ]_vars

\* the second payment went to week 2 after its due date had passed: week 1
\* is still paid, week 3 still pending, nothing is overdue
C23_Witness ==
    /\ result.op = "makePayment"
    /\ result.err = NoError
    /\ result.week = 2
    /\ \E r \in PaidRows(schedule, result.loanID) :
        r.weekNumber = 2 /\ r.dueDate < Today
    /\ \E r \in PaidRows(schedule, result.loanID) : r.weekNumber = 1
    /\ \E r \in PendingRows(schedule, result.loanID) : r.weekNumber = 3

----------------------------------------------------------------------------
(* C24: payment rows are append-only: every step keeps every payment row
   as it was, and the rows change only in a makePayment that succeeded,
   which adds exactly one row, for its loan and its amount. *)
C24_PaymentsAppendOnly ==
    [][/\ payments \subseteq payments'
       /\ payments' # payments =>
            \E l \in LoanIDs : AcceptedPayment(l)
       /\ \A l \in LoanIDs : AcceptedPayment(l) =>
            \E p \in payments' :
                /\ p \notin payments
                /\ payments' = payments \cup {p}
                /\ p.loanID = l
                /\ p.amount = result'.amount
                /\ p.weekNumber = result'.week
    ]_vars

\* the third payment succeeded: the two rows stored before it are still
\* there and one row was added
C24_Witness ==
    /\ result.op = "makePayment"
    /\ result.err = NoError
    /\ result.week = 3
    /\ Cardinality(PaymentRows(payments, result.loanID)) = 3
    /\ \A w \in 1..3 :
        \E p \in PaymentRows(payments, result.loanID) :
            p.weekNumber = w /\ p.seq = w /\ p.amount = result.amount

----------------------------------------------------------------------------
(* C25: CreateSchedule is all-or-nothing: when an INSERT of the batch (or
   the commit) fails the call returns an error and the stored schedule is
   what it was before the call, empty if it was empty; no row of the batch
   is stored before the call has succeeded, and a call that succeeds stores
   the whole batch. *)
C25_CreateScheduleAllOrNothing ==
    result.op = "createSchedule" =>
        /\ (result.pc # "done" \/ result.err # NoError) =>
                schedule = result.before
        /\ (result.pc = "done" /\ result.err = NoError) =>
                schedule = result.before
                            \cup { result.batch[k] :
                                        k \in 1..Len(result.batch) }

\* the third INSERT of a batch failed after two had succeeded, the call has
\* returned its error and the schedule read afterwards is empty
C25_Witness ==
    /\ result.op = "createSchedule"
    /\ result.pc = "done"
    /\ result.err = PersistenceError
    /\ result.i = 3
    /\ result.before = {}
    /\ GetScheduleByLoanID(schedule, "L1") = <<>>

----------------------------------------------------------------------------
(* C26: in the CreateLoan handler every valid value the payload supplies
   for principal (> 0), annual rate (>= 0, so also 0) and duration (> 0)
   reaches the service as supplied, a payload whose supplied values are all
   valid is not refused, and a term reaches the service as the configured
   default only when the payload left it out. *)
SuppliedValid(payload) ==
    /\ "amount" \in payload.given => payload.amount > 0
    /\ "interest_rate" \in payload.given => payload.interestRate >= 0
    /\ "duration_weeks" \in payload.given => payload.durationWeeks > 0

C26_SuppliedValuesReachService ==
    (result.op = "createLoan" /\ SuppliedValid(result.payload)) =>
        LET payload == result.payload
            request == result.request
        IN  /\ request # Nil
            /\ request.amount =
                 IF "amount" \in payload.given
                    THEN payload.amount ELSE DefaultLoanAmount
            /\ request.interestRate =
                 IF "interest_rate" \in payload.given
                    THEN payload.interestRate ELSE DefaultAnnualRate
            /\ request.durationWeeks =
                 IF "duration_weeks" \in payload.given
                    THEN payload.durationWeeks ELSE DefaultDurationWeeks

\* a payload that supplies the principal and the duration and leaves out the
\* rate: the loan is created with the supplied terms at the default rate
C26_Witness ==
    /\ result.op = "createLoan"
    /\ result.http = StatusCreated
    /\ result.payload.given = {"amount", "duration_weeks"}
    /\ result.request.amount = 1000
    /\ result.request.durationWeeks = 2
    /\ result.request.interestRate = DefaultAnnualRate
    /\ \E loan \in loans :
        /\ loan.amount = 1000
        /\ loan.durationWeeks = 2
        /\ loan.interestRate = DefaultAnnualRate

----------------------------------------------------------------------------
(* C27: however concurrent createLoan calls for one loanID interleave, at
   most one of them succeeds and the table never holds two loans with that
   loanID; once every call has returned there is exactly one such loan, it
   is the loan of the call that succeeded, and its schedule is exactly that
   call's durationWeeks installments, weeks 1..durationWeeks once each. *)
CrWinners(l) ==
    { p \in Procs : /\ procs[p].pc = "returned"
                    /\ procs[p].err = NoError
                    /\ procs[p].req.loanID = l }

C27_OneCreateLoanWins ==
    \A l \in LoanIDs :
        /\ Cardinality(CrWinners(l)) <= 1
        /\ Cardinality({ r \in loans : r.loanID = l }) <= 1
        /\ \A p \in CrWinners(l) :
            /\ procs[p].loan \in loans
            /\ Rows(schedule, l) = NewSchedule(procs[p].loan)
        /\ (\A p \in Procs : procs[p].pc = "returned") =>
            /\ Cardinality(CrWinners(l)) = 1
            /\ Cardinality({ r \in loans : r.loanID = l }) = 1
            /\ \A r \in loans : r.loanID = l =>
                /\ Cardinality(Rows(schedule, l)) = r.durationWeeks
                /\ { q.weekNumber : q \in Rows(schedule, l) }
                     = 1..r.durationWeeks

\* both requests passed the lookup before either inserted; one has created
\* the loan, the other was refused by the database
C27_Witness ==
    /\ \A p \in Procs : procs[p].pc = "returned"
    /\ \E p, q \in Procs :
        /\ procs[p].err = NoError
        /\ procs[q].err = PersistenceError
        /\ procs[p].req.durationWeeks # procs[q].req.durationWeeks
    /\ Cardinality(loans) = 1

----------------------------------------------------------------------------
(* C28: with createLoan and makePayment called one at a time, the paid
   installments of a loan are weeks 1..k for some k, and the payment rows
   of the loan, in the order they were created, carry the week numbers
   1, 2, ..., k: no gap and no repeat. *)
C28_PaidWeeksArePrefix ==
    \A l \in LoanIDs :
        LET k == Cardinality(PaidRows(schedule, l))
            history == PaymentsGetByLoanID(payments, l)
        IN  /\ { r.weekNumber : r \in PaidRows(schedule, l) } = 1..k
            /\ Len(history) = k
            /\ \A i \in 1..k : history[i].weekNumber = k + 1 - i

\* two payments on a three-week loan: weeks 1 and 2 paid, week 3 pending
C28_Witness ==
    /\ result.op = "makePayment"
    /\ result.err = NoError
    /\ { r.weekNumber : r \in PaidRows(schedule, result.loanID) } = {1, 2}
    /\ { r.weekNumber : r \in PendingRows(schedule, result.loanID) } = {3}
    /\ Len(PaymentsGetByLoanID(payments, result.loanID)) = 2

----------------------------------------------------------------------------
(* C29: on one and the same day an accepted makePayment never makes a loan
   delinquent: when isDelinquent answered false before the payment it
   answers false after it; and a loan with exactly threshold pending
   installments due before today is not delinquent after one accepted
   payment.  A loan the payment has closed counts as not delinquent. *)
PastDuePending(sch, l) ==
    { r \in PendingRows(sch, l) : Truncate(r.dueDate) < Today }

DelinquentNoMore ==
    \A l \in LoanIDs : AcceptedPayment(l) =>
        \A tod \in 0..(TicksPerDay - 1) :
            (Cardinality(PastDuePending(schedule, l)) = DelinquentThreshold)
                => ~IsDelinquent(loans', schedule', l, Now(tod), NoFail).value

NeverTurnsDelinquent ==
    \A l \in LoanIDs : AcceptedPayment(l) =>
        \A tod \in 0..(TicksPerDay - 1) :
            ~IsDelinquent(loans, schedule, l, Now(tod), NoFail).value
                => ~IsDelinquent(loans', schedule', l, Now(tod), NoFail).value

C29_PaymentNeverMakesDelinquent ==
    [][NeverTurnsDelinquent /\ DelinquentNoMore]_vars

\* two installments were pending and due before today, none is due today;
\* week 1 has just been paid and the handler reports the loan not delinquent
C29_Witness ==
    /\ result.op = "makePayment"
    /\ result.err = NoError
    /\ result.week = 1
    /\ result.http = StatusOK
    /\ result.isDelinquent = FALSE
    /\ Cardinality(PastDuePending(schedule, result.loanID)) = 1
    /\ Cardinality(PendingRows(schedule, result.loanID)) = 2
    /\ \A r \in Rows(schedule, result.loanID) : Truncate(r.dueDate) # Today

----------------------------------------------------------------------------
(* C30: a createLoan or makePayment for one loan leaves every other loan
   as it was: its loan row, its installments, its payment rows, and what
   getOutstanding and isDelinquent answer for it; getOutstanding and
   isDelinquent change no table at all. *)
C30_OtherLoansUntouched ==
    [][/\ \A a \in PairLoanIDs :
            ( /\ result'.op \in {"createLoan", "makePayment"}
              /\ result'.loanID = a ) =>
            \A b \in PairLoanIDs \ {a} :
                /\ { r \in loans' : r.loanID = b }
                     = { r \in loans : r.loanID = b }
                /\ Rows(schedule', b) = Rows(schedule, b)
                /\ PaymentRows(payments', b) = PaymentRows(payments, b)
                /\ GetOutstanding(loans', payments', b, NoFail)
                     = GetOutstanding(loans, payments, b, NoFail)
                /\ \A tod \in 0..(TicksPerDay - 1) :
                    IsDelinquent(loans', schedule', b, Now(tod), NoFail)
                      = IsDelinquent(loans, schedule, b, Now(tod), NoFail)
       /\ result'.op \in {"getOutstanding", "isDelinquent"} =>
            UNCHANGED <<loans, schedule, payments>>
    ]_vars

\* L1 has just been paid, for the same week number that is still pending
\* and overdue on L2, and L2 is delinquent
C30_Witness ==
    /\ result.op = "makePayment"
    /\ result.loanID = "L1"
    /\ result.err = NoError
    /\ \E r \in PendingRows(schedule, "L2") : r.weekNumber = result.week
    /\ PaymentRows(payments, "L2") = {}
    /\ IsDelinquent(loans, schedule, "L2", Now(0), NoFail).value

====
